---- MODULE Spec2Model ----
(***************************************************************************)
(* A model of scrape.py: the cache-backed classification of a song feed    *)
(* and the reconciliation of the "heard in the mission" playlist.          *)
(*                                                                         *)
(* One behaviour is a succession of runs of main().  The cache file and    *)
(* the remote playlists outlive a run; everything else is local to it.     *)
(***************************************************************************)
EXTENDS Integers, Sequences, FiniteSets, TLC

-----------------------------------------------------------------------------
(* Bounds of the model *)

MaxRows == 3
MaxTracks == 2
MaxRuns == 2
MaxBatchItems == 250
MaxSearches == 1000
MaxHits == 2
MaxPlaylists == 101

-----------------------------------------------------------------------------
(* Values *)

None == "None"
Unbound == "Unbound"

PLAYLIST_NAME == "heard in the mission"
OtherName == "Heard In The Mission"

BatchSize == 100
SleepEvery == 500
PageLimit == 50

Song(t, a) == [title |-> t, artist |-> a]

\* The songs a feed row can name.  "a"+"bc" and "ab"+"c" give the same key.
Songs == {Song("a", "bc"), Song("ab", "c"), Song("d", "e")}

\* concat_name / title + artist
Key(song) == song.title \o song.artist

TrackIds == {"T1", "T2"}

Uri(id) == "spotify:track:" \o id

IdOfUri(u) == CHOOSE t \in TrackIds : Uri(t) = u

\* One entry of get_playlist_tracks
Item(id) == [id |-> id, uri |-> Uri(id)]

\* results['tracks']['items'] of sp.search(q, type='track', limit=1)
SearchItems(song) ==
    IF song = Song("a", "bc") THEN <<Item("T1")>>
    ELSE IF song = Song("d", "e") THEN <<Item("T2")>>
    ELSE <<>>

\* The texts the classification service can answer with
OaiAnswers == {"Yes", "No"}

BoundedSeq(S, n) == UNION {[1..m -> S] : m \in 0..n}

Range(s) == {s[n] : n \in 1..Len(s)}

Count(s, x) == Cardinality({n \in 1..Len(s) : s[n] = x})

Min(a, b) == IF a < b THEN a ELSE b

-----------------------------------------------------------------------------
(* The cache *)

EmptyCache == [key \in {} |-> None]

CacheRecord(answer_, id) == [OAI_RES |-> answer_, SPOTIFY_ID |-> id]

\* song_cache[key] = rec
CachePut(c, key, rec) ==
    [x \in DOMAIN c \cup {key} |-> IF x = key THEN rec ELSE c[x]]

\* The cache file: absent, or holding the mapping last dumped into it
NoFile == [exists |-> FALSE, data |-> EmptyCache]

\* load_cache: the empty mapping when there is no file
LoadCache(file) == IF file.exists THEN file.data ELSE EmptyCache

\* save_cache: json.dump of the whole mapping over the file
SaveCache(c) == [exists |-> TRUE, data |-> c]

\* The keys a feed row can have, in the order json.dump writes them
Keys == {Key(song) : song \in Songs}

KeyOrder == CHOOSE f \in [1..Cardinality(Keys) -> Keys] : Range(f) = Keys

\* The pieces json.dump writes one after the other
Token(kind, key, rec) ==
    [kind |-> kind, key |-> key, OAI_RES |-> rec.OAI_RES, SPOTIFY_ID |-> rec.SPOTIFY_ID]

NoRecord == CacheRecord(None, None)

\* json.dump(cache, f): the text of the whole mapping
Dump(c) ==
    LET held == SelectSeq(KeyOrder, LAMBDA key : key \in DOMAIN c)
    IN <<Token("{", "", NoRecord)>>
       \o [n \in 1..Len(held) |-> Token("entry", held[n], c[held[n]])]
       \o <<Token("}", "", NoRecord)>>

\* json.load accepts the text
WellFormed(text) ==
    /\ Len(text) >= 2
    /\ text[1].kind = "{"
    /\ text[Len(text)].kind = "}"
    /\ \A n \in 2..(Len(text) - 1) : text[n].kind = "entry"

\* json.load(f) of a text it accepts
Parse(text) ==
    LET entries == {n \in 2..(Len(text) - 1) : text[n].kind = "entry"}
        last(key) == CHOOSE n \in entries :
                        /\ text[n].key = key
                        /\ \A m \in entries : text[m].key = key => m <= n
    IN [key \in {text[n].key : n \in entries} |->
           CacheRecord(text[last(key)].OAI_RES, text[last(key)].SPOTIFY_ID)]

\* The file as text: absent, or holding what was written since open(path, 'w')
NoText == [exists |-> FALSE, text |-> <<>>]

\* with open(path, 'w') as f: json.dump(cache, f), run to its end
Written(c) == [exists |-> TRUE, text |-> Dump(c)]

\* open(path, 'w') has run: the file is there and empty
Truncated == [exists |-> TRUE, text |-> <<>>]

\* The file that holds the whole of what disk holds
Complete(d) == IF d.exists THEN Written(d.data) ELSE NoText

LoadFileMut(f) ==
    IF f.exists /\ WellFormed(f.text)
    THEN [err |-> "none", data |-> Parse(f.text)]
    ELSE [err |-> "none", data |-> EmptyCache]

\* load_cache over the text: only FileNotFoundError is caught
LoadFile(f) ==
    IF ~f.exists THEN [err |-> "none", data |-> EmptyCache]
    ELSE IF WellFormed(f.text) THEN [err |-> "none", data |-> Parse(f.text)]
    ELSE [err |-> "JSONDecodeError", data |-> EmptyCache]

-----------------------------------------------------------------------------
(* The remote playlist service *)

\* sp.playlist_tracks + sp.next until exhausted
GetPlaylistTracks(pls, pid) == [n \in 1..Len(pls[pid].tracks) |-> Item(pls[pid].tracks[n])]

\* sp.user_playlist_add_tracks(user_id, playlist_id, uris)
AddTracks(pls, pid, uris) ==
    [pls EXCEPT ![pid].tracks = @ \o [n \in 1..Len(uris) |-> IdOfUri(uris[n])]]

\* sp.playlist_remove_all_occurrences_of_items(playlist_id, uris)
RemoveAllOccurrences(pls, pid, uris) ==
    [pls EXCEPT ![pid].tracks = SelectSeq(@, LAMBDA t : Uri(t) \notin Range(uris))]

\* duplicate_ids: the ids Counter counts more than once, in first-seen order
DuplicateIds(ids) ==
    LET firstDup(n) == /\ Count(ids, ids[n]) > 1
                       /\ \A m \in 1..(n - 1) : ids[m] # ids[n]
        pos == SelectSeq([n \in 1..Len(ids) |-> n], firstDup)
    IN [n \in 1..Len(pos) |-> ids[pos[n]]]

\* dup_uris = [track['uri'] for track in tracks if track['id'] == dup_id]
DupUris(tracks, dup_id) ==
    LET same == SelectSeq(tracks, LAMBDA t : t.id = dup_id)
    IN [n \in 1..Len(same) |-> same[n].uri]

\* the loop of remove_duplicates over duplicate_ids
RECURSIVE RemoveLoop(_, _, _, _)
RemoveLoop(pls, pid, tracks, dupIds) ==
    IF dupIds = <<>> THEN pls
    ELSE RemoveLoop(RemoveAllOccurrences(pls, pid, Tail(DupUris(tracks, Head(dupIds)))),
                    pid, tracks, Tail(dupIds))

\* remove_duplicates(sp, playlist_id): the playlists it leaves
RemoveDuplicatesOf(pls, pid) ==
    LET tracks == GetPlaylistTracks(pls, pid)
        track_ids == [n \in 1..Len(tracks) |-> tracks[n].id]
    IN RemoveLoop(pls, pid, tracks, DuplicateIds(track_ids))

\* the position of the first playlist named PLAYLIST_NAME, 0 when there is none
FindPlaylist(pls) ==
    LET hits == {n \in 1..Len(pls) : pls[n].name = PLAYLIST_NAME}
    IN IF hits = {} THEN 0 ELSE CHOOSE n \in hits : \A m \in hits : n <= m

\* sp.current_user_playlists(limit=50, offset=offset): the page and whether one follows
CurrentUserPlaylists(pls, from) ==
    [items |-> [n \in 1..Min(PageLimit, Len(pls) - Min(from, Len(pls))) |->
                   [id |-> from + n, name |-> pls[from + n].name]],
     next  |-> from + PageLimit < Len(pls)]

MorePagesMut(results) == FALSE

\* if not results['next']: break
MorePages(results) == results.next

\* sp.user_playlist_create(user_id, PLAYLIST_NAME, public=False)
CreatePlaylist(pls) == Append(pls, [name |-> PLAYLIST_NAME, tracks |-> <<>>])

-----------------------------------------------------------------------------
(* The conditions and slices of the two loops *)

InCacheMut(c, key) == key \in DOMAIN c /\ c[key].SPOTIFY_ID # None

\* title + artist in song_cache
InCache(c, key) == key \in DOMAIN c

HasTrackIdMut(c, key) == key \notin DOMAIN c

\* concat_name in song_cache and song_cache[concat_name][SPOTIFY_ID]
HasTrackId(c, key) ==
    /\ key \in DOMAIN c
    /\ c[key].SPOTIFY_ID # None
    /\ c[key].SPOTIFY_ID # ""

ClassifiedMut(c, key, answer_) == CachePut(c, key, CacheRecord("Yes", None))

\* song_cache[title + artist] = { OAI_RES: answer, SPOTIFY_ID: None }
Classified(c, key, answer_) == CachePut(c, key, CacheRecord(answer_, None))

WithTrackIdMut(c, key, id) == [c EXCEPT ![key] = CacheRecord(None, id)]

\* song_cache[concat_name][SPOTIFY_ID] = track_id
WithTrackId(c, key, id) == [c EXCEPT ![key].SPOTIFY_ID = id]

IsSpanishMut(answer_) == answer_ \in {"Yes", "yes", " Yes"}

\* if answer == 'Yes'
IsSpanish(answer_) == answer_ = "Yes"

AfterSearchMut(c, key, items) ==
    WithTrackId(c, key, IF items # <<>> THEN items[1].id ELSE "NotFound")

\* lines 151-154: the cache takes the id of the first item, if there is one
AfterSearch(c, key, items) ==
    IF items # <<>> THEN WithTrackId(c, key, items[1].id) ELSE c

\* song_num % 500 == 0
SleepDue(num) == num % SleepEvery = 0

BatchMut(s, from) == SubSeq(s, from + 1, Min(from + BatchSize - 1, Len(s)))

\* tracks_to_add[i:i+100]
Batch(s, from) == SubSeq(s, from + 1, Min(from + BatchSize, Len(s)))

-----------------------------------------------------------------------------
(* State *)

VARIABLES
    pc,                 \* where main() stands
    run,                \* the number of runs started
    exit,               \* how the last run that ended did end
    df,                 \* the feed: the rows of the export
    disk,               \* the cache file
    playlists,          \* the user's playlists at the service
    song_cache,         \* the mapping in memory
    cache0,             \* the mapping as load_cache returned it
    i,                  \* row of df that classify_spanish_music is at
    spanish_songs,
    answer,
    oaiCalls,           \* completions requested in this run
    playlist_id,
    existing_track_ids,
    tracks_to_add,
    track_uri,
    track_id,
    j,                  \* song that update_spotify_playlist is at
    song_num,
    searchCalls,        \* searches requested in this run
    sleeps,             \* time.sleep(15) calls in this run
    k,                  \* the i of range(0, len(tracks_to_add), 100)
    addCalls,           \* the payloads of the add calls of this run
    resolved,           \* track_id as line 156 read it, per song
    cause,              \* track_id as line 156 read it, per item of tracks_to_add
    dedupFetched,       \* the track ids remove_duplicates fetched
    hist,               \* the last reconciliation that ended
    prev,               \* the one before it
    saves,              \* save_cache calls completed in this run
    sleptAt,            \* searchCalls at each time.sleep(15) of this run
    lostKeys,           \* the keys classified in a run that the classifier's failure ended
    offset,             \* the offset of get_or_create_playlist
    listed,             \* its list playlists, with the id of each
    file,               \* the cache file as text, where save_cache is followed write by write
    oaiTexts            \* the texts the classification service answers with

remote == <<disk, playlists>>
clsVars == <<i, spanish_songs, answer, oaiCalls>>
updVars == <<playlist_id, existing_track_ids, tracks_to_add, track_uri, track_id, j,
             song_num, searchCalls, sleeps, k, addCalls, resolved, cause, dedupFetched>>
histVars == <<hist, prev>>
listVars == <<offset, listed>>
env == <<file, oaiTexts>>
vars == <<pc, run, exit, df, song_cache, cache0, remote, clsVars, updVars, histVars,
          saves, sleptAt, lostKeys, listVars, env>>

\* The track ids of the playlist the run works on
RemoteTracks(pls, pid) == IF pid \in 1..Len(pls) THEN pls[pid].tracks ELSE <<>>

\* The locals of a process that has just started
FreshLocals ==
    /\ i' = 1
    /\ spanish_songs' = <<>>
    /\ answer' = None
    /\ oaiCalls' = 0
    /\ playlist_id' = 0
    /\ existing_track_ids' = <<>>
    /\ tracks_to_add' = <<>>
    /\ track_uri' = Unbound
    /\ track_id' = None
    /\ j' = 1
    /\ song_num' = 1
    /\ searchCalls' = 0
    /\ sleeps' = 0
    /\ k' = 0
    /\ addCalls' = <<>>
    /\ resolved' = <<>>
    /\ cause' = <<>>
    /\ dedupFetched' = <<>>
    /\ saves' = 0
    /\ sleptAt' = <<>>
    /\ offset' = 0
    /\ listed' = <<>>

\* No reconciliation has ended since the last run that did not get to one
NoHist == [songs |-> <<>>, tracks |-> <<>>, toAdd |-> <<>>, exit |-> "none",
           track_id |-> None, searches |-> 0]

InitPlaylists ==
    {<<>>, <<[name |-> OtherName, tracks |-> <<>>]>>}
    \cup {<<[name |-> PLAYLIST_NAME, tracks |-> t]>> : t \in BoundedSeq(TrackIds, MaxTracks)}

Init ==
    /\ pc = "idle"
    /\ run = 0
    /\ exit = "none"
    /\ df \in BoundedSeq(Songs, MaxRows)
    /\ disk = NoFile
    /\ playlists \in InitPlaylists
    /\ song_cache = EmptyCache
    /\ cache0 = EmptyCache
    /\ i = 1
    /\ spanish_songs = <<>>
    /\ answer = None
    /\ oaiCalls = 0
    /\ playlist_id = 0
    /\ existing_track_ids = <<>>
    /\ tracks_to_add = <<>>
    /\ track_uri = Unbound
    /\ track_id = None
    /\ j = 1
    /\ song_num = 1
    /\ searchCalls = 0
    /\ sleeps = 0
    /\ k = 0
    /\ addCalls = <<>>
    /\ resolved = <<>>
    /\ cause = <<>>
    /\ dedupFetched = <<>>
    /\ hist = NoHist
    /\ prev = NoHist
    /\ saves = 0
    /\ sleptAt = <<>>
    /\ lostKeys = {}
    /\ offset = 0
    /\ listed = <<>>
    /\ file = NoText
    /\ oaiTexts = OaiAnswers

-----------------------------------------------------------------------------
(* main() *)

\* An exception leaves main(): the process ends, its locals with it.
Raise(err) ==
    /\ pc' = "aborted"
    /\ exit' = err
    /\ song_cache' = EmptyCache
    /\ cache0' = EmptyCache
    /\ FreshLocals

\* The record of a reconciliation that ended with pls at the service, its
\* track_id being id
Ended(how, pls, id) ==
    [songs |-> spanish_songs, tracks |-> RemoteTracks(pls, playlist_id),
     toAdd |-> tracks_to_add, exit |-> how, track_id |-> id, searches |-> searchCalls]

\* get_df_by_curl: the export as it is now, which an earlier fetch may have
\* seen without its last row
Exports(seen) ==
    {seen} \cup {Append(seen, song) : song \in {x \in Songs : Len(seen) < MaxRows}}

\* main, lines 198-199: a new process fetches the feed and loads the cache
StartRun ==
    /\ pc \in {"idle", "done", "aborted"}
    /\ run < MaxRuns
    /\ run' = run + 1
    /\ df' \in Exports(df)
    /\ pc' = "classify"
    /\ song_cache' = LoadCache(disk)
    /\ cache0' = LoadCache(disk)
    /\ FreshLocals
    /\ lostKeys' = {}
    /\ UNCHANGED <<exit, remote, histVars, env>>

\* classify_spanish_music, one row whose key is in the cache
ClassifyCached ==
    /\ pc = "classify"
    /\ i <= Len(df)
    /\ InCache(song_cache, Key(df[i]))
    /\ LET stored == song_cache[Key(df[i])].OAI_RES
       IN /\ answer' = stored
          /\ spanish_songs' = IF IsSpanish(stored) THEN Append(spanish_songs, df[i])
                              ELSE spanish_songs
    /\ i' = i + 1
    /\ UNCHANGED <<pc, run, exit, df, song_cache, cache0, remote, oaiCalls, updVars, histVars,
                   saves, sleptAt, lostKeys, listVars, env>>

\* classify_spanish_music, one row whose key is not in the cache
ClassifyCall ==
    /\ pc = "classify"
    /\ i <= Len(df)
    /\ ~InCache(song_cache, Key(df[i]))
    /\ \E text \in oaiTexts :
          /\ answer' = text
          /\ song_cache' = Classified(song_cache, Key(df[i]), text)
          /\ spanish_songs' = IF IsSpanish(text) THEN Append(spanish_songs, df[i])
                              ELSE spanish_songs
    /\ oaiCalls' = oaiCalls + 1
    /\ i' = i + 1
    /\ UNCHANGED <<pc, run, exit, df, cache0, remote, updVars, histVars,
                   saves, sleptAt, lostKeys, listVars, env>>

ClassifyFailMut ==
    /\ pc = "classify"
    /\ i <= Len(df)
    /\ ~InCache(song_cache, Key(df[i]))
    /\ Raise("ClassificationError")
    /\ hist' = NoHist
    /\ prev' = NoHist
    /\ lostKeys' = DOMAIN song_cache \ DOMAIN cache0
    /\ disk' = SaveCache(song_cache)
    /\ file' = Written(song_cache)
    /\ UNCHANGED <<run, df, playlists, oaiTexts>>

\* client.chat.completions.create raises: nothing catches it
ClassifyFail ==
    /\ pc = "classify"
    /\ i <= Len(df)
    /\ ~InCache(song_cache, Key(df[i]))
    /\ Raise("ClassificationError")
    /\ hist' = NoHist
    /\ prev' = NoHist
    /\ lostKeys' = DOMAIN song_cache \ DOMAIN cache0
    /\ UNCHANGED <<run, df, remote, env>>

SaveClassifiedMut ==
    /\ pc = "classify"
    /\ i > Len(df)
    /\ pc' = "spotify"
    /\ UNCHANGED <<run, exit, df, remote, song_cache, cache0, clsVars, updVars, histVars,
                   saves, sleptAt, lostKeys, listVars, env>>

\* main, lines 200-201: the loop is over, the first save
SaveClassified ==
    /\ pc = "classify"
    /\ i > Len(df)
    /\ disk' = SaveCache(song_cache)
    /\ file' = Written(song_cache)
    /\ saves' = saves + 1
    /\ pc' = "spotify"
    /\ UNCHANGED <<run, exit, df, playlists, song_cache, cache0, clsVars, updVars, histVars,
                   sleptAt, lostKeys, listVars, oaiTexts>>

\* get_or_create_playlist, lines 93-100: one turn of the paging loop
ListPlaylists ==
    /\ pc = "spotify"
    /\ LET results == CurrentUserPlaylists(playlists, offset)
       IN /\ listed' = listed \o results.items
          /\ offset' = offset + Len(results.items)
          /\ pc' = IF MorePages(results) THEN "spotify" ELSE "locate"
    /\ UNCHANGED <<run, exit, df, remote, song_cache, cache0, clsVars, updVars, histVars,
                   saves, sleptAt, lostKeys, env>>

\* get_or_create_playlist, lines 102-111: return the first playlist of that name or create it
GetOrCreatePlaylist ==
    /\ pc = "locate"
    /\ IF FindPlaylist(listed) # 0
       THEN /\ playlist_id' = listed[FindPlaylist(listed)].id
            /\ UNCHANGED playlists
       ELSE /\ playlists' = CreatePlaylist(playlists)
            /\ playlist_id' = Len(playlists) + 1
    /\ pc' = "fetch"
    /\ offset' = 0
    /\ listed' = <<>>
    /\ UNCHANGED <<run, exit, df, disk, song_cache, cache0, clsVars, existing_track_ids,
                   tracks_to_add, track_uri, track_id, j, song_num, searchCalls, sleeps, k,
                   addCalls, resolved, cause, dedupFetched, histVars, saves, sleptAt,
                   lostKeys, env>>

\* update_spotify_playlist, lines 130-135
FetchMembership ==
    /\ pc = "fetch"
    /\ LET existing_tracks == GetPlaylistTracks(playlists, playlist_id)
       IN existing_track_ids' = [n \in 1..Len(existing_tracks) |-> existing_tracks[n].id]
    /\ tracks_to_add' = <<>>
    /\ song_num' = 1
    /\ j' = 1
    /\ pc' = "resolve"
    /\ UNCHANGED <<run, exit, df, remote, song_cache, cache0, clsVars, playlist_id, track_uri,
                   track_id, searchCalls, sleeps, k, addCalls, resolved, cause, dedupFetched,
                   histVars, saves, sleptAt, lostKeys, listVars, env>>

\* lines 156-157 with track_id = id and track_uri = uri, then the next song;
\* reading the unassigned track_uri raises UnboundLocalError
AppendMissing(id, uri, cache) ==
    IF id \notin Range(existing_track_ids) /\ uri = Unbound
    THEN /\ Raise("UnboundLocalError")
         /\ prev' = hist
         /\ hist' = Ended("UnboundLocalError", playlists, id)
         /\ UNCHANGED <<lostKeys>>
    ELSE /\ tracks_to_add' = IF id \notin Range(existing_track_ids)
                             THEN Append(tracks_to_add, uri) ELSE tracks_to_add
         /\ track_id' = id
         /\ track_uri' = uri
         /\ song_cache' = cache
         /\ resolved' = Append(resolved, id)
         /\ cause' = IF id \notin Range(existing_track_ids)
                     THEN Append(cause, id) ELSE cause
         /\ j' = j + 1
         /\ UNCHANGED <<pc, exit, cache0, clsVars, playlist_id, existing_track_ids, k,
                        addCalls, dedupFetched, histVars, saves, lostKeys, listVars>>

\* update_spotify_playlist, one song whose track id the cache holds
ResolveCached ==
    /\ pc = "resolve"
    /\ j <= Len(spanish_songs)
    /\ HasTrackId(song_cache, Key(spanish_songs[j]))
    /\ AppendMissing(song_cache[Key(spanish_songs[j])].SPOTIFY_ID, track_uri, song_cache)
    /\ UNCHANGED <<run, df, remote, env>>
    /\ pc' = "aborted" \/ UNCHANGED <<song_num, searchCalls, sleeps, sleptAt>>

\* update_spotify_playlist, one song that is searched for
ResolveSearch ==
    /\ pc = "resolve"
    /\ j <= Len(spanish_songs)
    /\ ~HasTrackId(song_cache, Key(spanish_songs[j]))
    /\ LET song == spanish_songs[j]
           items == SearchItems(song)
       IN IF items # <<>>
          THEN AppendMissing(items[1].id, items[1].uri,
                             AfterSearch(song_cache, Key(song), items))
          ELSE AppendMissing(None, track_uri, AfterSearch(song_cache, Key(song), items))
    /\ UNCHANGED <<run, df, remote, env>>
    /\ \/ pc' = "aborted"
       \/ /\ song_num' = song_num + 1
          /\ searchCalls' = searchCalls + 1
          /\ sleeps' = IF SleepDue(song_num) THEN sleeps + 1 ELSE sleeps
          /\ sleptAt' = IF SleepDue(song_num) THEN Append(sleptAt, searchCalls) ELSE sleptAt

\* the loop over songs is over
ResolveDone ==
    /\ pc = "resolve"
    /\ j > Len(spanish_songs)
    /\ pc' = "add"
    /\ k' = 0
    /\ UNCHANGED <<run, exit, df, remote, song_cache, cache0, clsVars, playlist_id,
                   existing_track_ids, tracks_to_add, track_uri, track_id, j, song_num,
                   searchCalls, sleeps, addCalls, resolved, cause, dedupFetched, histVars,
                   saves, sleptAt, lostKeys, listVars, env>>

\* lines 160-164: one sp.user_playlist_add_tracks call
AddBatch ==
    /\ pc = "add"
    /\ k < Len(tracks_to_add)
    /\ playlists' = AddTracks(playlists, playlist_id, Batch(tracks_to_add, k))
    /\ addCalls' = Append(addCalls, Batch(tracks_to_add, k))
    /\ k' = k + BatchSize
    /\ UNCHANGED <<pc, run, exit, df, disk, song_cache, cache0, clsVars, playlist_id,
                   existing_track_ids, tracks_to_add, track_uri, track_id, j, song_num,
                   searchCalls, sleeps, resolved, cause, dedupFetched, histVars,
                   saves, sleptAt, lostKeys, listVars, env>>

\* lines 168-170 and 172-183: remove_duplicates, then update_spotify_playlist returns
RemoveDuplicates ==
    /\ pc = "add"
    /\ k >= Len(tracks_to_add)
    /\ dedupFetched' = RemoteTracks(playlists, playlist_id)
    /\ playlists' = RemoveDuplicatesOf(playlists, playlist_id)
    /\ prev' = hist
    /\ hist' = Ended("ok", playlists', track_id)
    /\ pc' = "save"
    /\ UNCHANGED <<run, exit, df, disk, song_cache, cache0, clsVars, playlist_id,
                   existing_track_ids, tracks_to_add, track_uri, track_id, j, song_num,
                   searchCalls, sleeps, k, addCalls, resolved, cause,
                   saves, sleptAt, lostKeys, listVars, env>>

\* main, lines 205-209: the second save, the run is complete
SaveReconciled ==
    /\ pc = "save"
    /\ disk' = SaveCache(song_cache)
    /\ file' = Written(song_cache)
    /\ saves' = saves + 1
    /\ pc' = "done"
    /\ exit' = "ok"
    /\ UNCHANGED <<run, df, playlists, song_cache, cache0, clsVars, updVars, histVars,
                   sleptAt, lostKeys, listVars, oaiTexts>>

\* a call to the playlist service raises: nothing catches it
SpotifyFail ==
    /\ \/ pc \in {"spotify", "locate", "fetch", "add"}
       \/ /\ pc = "resolve"
          /\ j <= Len(spanish_songs)
          /\ ~HasTrackId(song_cache, Key(spanish_songs[j]))
    /\ Raise("CatalogError")
    /\ prev' = IF pc \in {"spotify", "locate"} THEN NoHist ELSE hist
    /\ hist' = IF pc \in {"spotify", "locate"} THEN NoHist
               ELSE Ended("CatalogError", playlists, track_id)
    /\ UNCHANGED <<run, df, remote, lostKeys, env>>

Next ==
    \/ StartRun
    \/ ClassifyCached
    \/ ClassifyCall
    \/ ClassifyFail
    \/ SaveClassified
    \/ ListPlaylists
    \/ GetOrCreatePlaylist
    \/ FetchMembership
    \/ ResolveCached
    \/ ResolveSearch
    \/ ResolveDone
    \/ AddBatch
    \/ RemoveDuplicates
    \/ SaveReconciled
    \/ SpotifyFail

Spec == Init /\ [][Next]_vars

-----------------------------------------------------------------------------
(* The add loop alone, on lists of up to MaxBatchItems items *)

\* A list of n uris, the one at position mark differing from the others
Marked(n, mark) == [p \in 1..n |-> IF p = mark THEN Uri("T2") ELSE Uri("T1")]

\* update_spotify_playlist at line 160, the loop over songs having left
\* tracks_to_add with n items
InitBatch ==
    /\ pc = "add"
    /\ run = 1
    /\ exit = "none"
    /\ df = <<>>
    /\ disk = SaveCache(EmptyCache)
    /\ playlists = <<[name |-> PLAYLIST_NAME, tracks |-> <<>>]>>
    /\ song_cache = EmptyCache
    /\ cache0 = EmptyCache
    /\ i = 1
    /\ spanish_songs = <<>>
    /\ answer = None
    /\ oaiCalls = 0
    /\ playlist_id = 1
    /\ existing_track_ids = <<>>
    /\ \E n \in 0..MaxBatchItems :
          \E mark \in {0, 1, BatchSize, BatchSize + 1, n} :
             /\ mark <= n
             /\ tracks_to_add = Marked(n, mark)
    /\ track_uri = Unbound
    /\ track_id = None
    /\ j = 1
    /\ song_num = 1
    /\ searchCalls = 0
    /\ sleeps = 0
    /\ k = 0
    /\ addCalls = <<>>
    /\ resolved = <<>>
    /\ cause = <<>>
    /\ dedupFetched = <<>>
    /\ hist = NoHist
    /\ prev = NoHist
    /\ saves = 1
    /\ sleptAt = <<>>
    /\ lostKeys = {}
    /\ offset = 0
    /\ listed = <<>>
    /\ file = Written(EmptyCache)
    /\ oaiTexts = OaiAnswers

NextBatch == AddBatch \/ RemoveDuplicates

SpecBatch == InitBatch /\ [][NextBatch]_vars

-----------------------------------------------------------------------------
(* The song loop over a long list: update_spotify_playlist, lines 135-157 *)

\* A list whose first song is found and cached by its search, with a block of
\* `hits` repeats of it after song `at`, and songs that no search finds
ThrottleSongs(hits, at) ==
    [m \in 1..(MaxSearches + hits) |->
        IF m = 1 \/ (m > at /\ m <= at + hits) THEN Song("d", "e") ELSE Song("ab", "c")]

InitThrottle ==
    /\ pc = "resolve"
    /\ run = 1
    /\ exit = "none"
    /\ \E hits \in 0..MaxHits, at \in {1, SleepEvery - 2, SleepEvery + 1} :
          /\ spanish_songs = ThrottleSongs(hits, at)
          /\ df = spanish_songs
    /\ song_cache = [key \in {"de", "abc"} |-> CacheRecord("Yes", None)]
    /\ cache0 = song_cache
    /\ disk = SaveCache(song_cache)
    /\ file = Written(song_cache)
    /\ playlists = <<[name |-> PLAYLIST_NAME, tracks |-> <<"T2">>]>>
    /\ i = Len(df) + 1
    /\ answer = None
    /\ oaiCalls = 0
    /\ playlist_id = 1
    /\ existing_track_ids = <<"T2">>
    /\ tracks_to_add = <<>>
    /\ track_uri = Unbound
    /\ track_id = None
    /\ j = 1
    /\ song_num = 1
    /\ searchCalls = 0
    /\ sleeps = 0
    /\ k = 0
    /\ addCalls = <<>>
    /\ resolved = <<>>
    /\ cause = <<>>
    /\ dedupFetched = <<>>
    /\ hist = NoHist
    /\ prev = NoHist
    /\ saves = 1
    /\ sleptAt = <<>>
    /\ lostKeys = {}
    /\ offset = 0
    /\ listed = <<>>
    /\ oaiTexts = OaiAnswers

NextThrottle == ResolveCached \/ ResolveSearch \/ ResolveDone

SpecThrottle == InitThrottle /\ [][NextThrottle]_vars

-----------------------------------------------------------------------------
(* The cache file, write by write: load_cache and save_cache, lines 27-46 *)

saveRest == <<df, playlists, clsVars, updVars, histVars, saves, sleptAt, lostKeys,
              listVars, oaiTexts>>

\* The mappings a file left by earlier runs may hold
InitCaches ==
    {EmptyCache, Classified(EmptyCache, "abc", "No"),
     WithTrackId(Classified(EmptyCache, "de", "Yes"), "de", "T2")}

InitSave ==
    /\ pc = "load"
    /\ run = 1
    /\ exit = "none"
    /\ df = <<>>
    /\ disk \in {NoFile} \cup {SaveCache(c) : c \in InitCaches}
    /\ file = Complete(disk)
    /\ playlists = <<>>
    /\ song_cache = EmptyCache
    /\ cache0 = EmptyCache
    /\ i = 1
    /\ spanish_songs = <<>>
    /\ answer = None
    /\ oaiCalls = 0
    /\ playlist_id = 0
    /\ existing_track_ids = <<>>
    /\ tracks_to_add = <<>>
    /\ track_uri = Unbound
    /\ track_id = None
    /\ j = 1
    /\ song_num = 1
    /\ searchCalls = 0
    /\ sleeps = 0
    /\ k = 0
    /\ addCalls = <<>>
    /\ resolved = <<>>
    /\ cause = <<>>
    /\ dedupFetched = <<>>
    /\ hist = NoHist
    /\ prev = NoHist
    /\ saves = 0
    /\ sleptAt = <<>>
    /\ lostKeys = {}
    /\ offset = 0
    /\ listed = <<>>
    /\ oaiTexts = OaiAnswers

\* main, line 199: load_cache(CACHE_PATH)
LoadCacheFile ==
    /\ pc = "load"
    /\ LET r == LoadFile(file)
       IN /\ song_cache' = r.data
          /\ cache0' = r.data
          /\ exit' = IF r.err = "none" THEN exit ELSE r.err
          /\ pc' = IF r.err = "none" THEN "edit" ELSE "load_failed"
    /\ UNCHANGED <<run, disk, file, saveRest>>

\* What a run does to the mapping before a save: nothing, a new record
\* (line 76) or a track id (line 154)
Edits(c) ==
    {c} \cup {Classified(c, key, text) : key \in Keys \ DOMAIN c, text \in OaiAnswers}
        \cup {WithTrackId(c, key, id) :
                 key \in {x \in DOMAIN c : c[x].SPOTIFY_ID = None}, id \in TrackIds}

\* main, lines 200 and 205: the mapping changes in memory
EditCache ==
    /\ pc = "edit"
    /\ song_cache' \in Edits(song_cache)
    /\ pc' = "open"
    /\ UNCHANGED <<run, exit, cache0, disk, file, saveRest>>

\* save_cache, line 45: open(path, 'w') truncates the file
SaveOpen ==
    /\ pc = "open"
    /\ file' = Truncated
    /\ pc' = "write"
    /\ UNCHANGED <<run, exit, song_cache, cache0, disk, saveRest>>

\* save_cache, line 46: json.dump writes the next piece
SaveWrite ==
    /\ pc = "write"
    /\ Len(file.text) < Len(Dump(song_cache))
    /\ file' = [file EXCEPT !.text = Append(@, Dump(song_cache)[Len(@) + 1])]
    /\ UNCHANGED <<pc, run, exit, song_cache, cache0, disk, saveRest>>

\* save_cache returns: the file holds the whole mapping
SaveClose ==
    /\ pc = "write"
    /\ file.text = Dump(song_cache)
    /\ disk' = SaveCache(song_cache)
    /\ pc' = "closed"
    /\ UNCHANGED <<run, exit, song_cache, cache0, file, saveRest>>

\* The process dies inside save_cache
SaveCrash ==
    /\ pc = "write"
    /\ pc' = "crashed"
    /\ disk' = IF file.text = Dump(song_cache) THEN SaveCache(song_cache) ELSE disk
    /\ UNCHANGED <<run, exit, song_cache, cache0, file, saveRest>>

\* The next run starts
NextRun ==
    /\ pc \in {"closed", "crashed"}
    /\ run < MaxRuns
    /\ run' = run + 1
    /\ pc' = "load"
    /\ song_cache' = EmptyCache
    /\ cache0' = EmptyCache
    /\ UNCHANGED <<exit, disk, file, saveRest>>

NextSave ==
    \/ LoadCacheFile
    \/ EditCache
    \/ SaveOpen
    \/ SaveWrite
    \/ SaveClose
    \/ SaveCrash
    \/ NextRun

SpecSave == InitSave /\ [][NextSave]_vars

-----------------------------------------------------------------------------
(* A long list of playlists: get_or_create_playlist, lines 90-111 *)

\* n playlists of another name, but for the one at `at` if there is one
ManyPlaylists(n, at) ==
    [m \in 1..n |-> [name |-> IF m = at THEN PLAYLIST_NAME ELSE OtherName, tracks |-> <<>>]]

InitPlaylist ==
    /\ pc = "spotify"
    /\ run = 1
    /\ exit = "none"
    /\ df = <<>>
    /\ disk = SaveCache(EmptyCache)
    /\ file = Written(EmptyCache)
    /\ \E n \in 0..MaxPlaylists :
          \E at \in {0, 1, PageLimit, PageLimit + 1, n} :
             /\ at <= n
             /\ playlists = ManyPlaylists(n, at)
    /\ song_cache = EmptyCache
    /\ cache0 = EmptyCache
    /\ i = 1
    /\ spanish_songs = <<>>
    /\ answer = None
    /\ oaiCalls = 0
    /\ playlist_id = 0
    /\ existing_track_ids = <<>>
    /\ tracks_to_add = <<>>
    /\ track_uri = Unbound
    /\ track_id = None
    /\ j = 1
    /\ song_num = 1
    /\ searchCalls = 0
    /\ sleeps = 0
    /\ k = 0
    /\ addCalls = <<>>
    /\ resolved = <<>>
    /\ cause = <<>>
    /\ dedupFetched = <<>>
    /\ hist = NoHist
    /\ prev = NoHist
    /\ saves = 1
    /\ sleptAt = <<>>
    /\ lostKeys = {}
    /\ offset = 0
    /\ listed = <<>>
    /\ oaiTexts = OaiAnswers

\* The run ends and the next one, over an empty feed, gets to line 204
NextLookup ==
    /\ pc = "fetch"
    /\ run < MaxRuns
    /\ run' = run + 1
    /\ pc' = "spotify"
    /\ playlist_id' = 0
    /\ UNCHANGED <<exit, df, remote, song_cache, cache0, clsVars, existing_track_ids,
                   tracks_to_add, track_uri, track_id, j, song_num, searchCalls, sleeps, k,
                   addCalls, resolved, cause, dedupFetched, histVars, saves, sleptAt,
                   lostKeys, listVars, env>>

NextPlaylist == ListPlaylists \/ GetOrCreatePlaylist \/ NextLookup

SpecPlaylist == InitPlaylist /\ [][NextPlaylist]_vars

-----------------------------------------------------------------------------
(* Classification when the service answers off the script: lines 51-80 *)

\* What completion.choices[0].message.content may be
LooseAnswers == OaiAnswers \cup {"yes", " Yes"}

InitClassify ==
    /\ pc = "idle"
    /\ run = 0
    /\ exit = "none"
    /\ df \in BoundedSeq(Songs, MaxRows)
    /\ disk = NoFile
    /\ file = NoText
    /\ playlists = <<>>
    /\ song_cache = EmptyCache
    /\ cache0 = EmptyCache
    /\ i = 1
    /\ spanish_songs = <<>>
    /\ answer = None
    /\ oaiCalls = 0
    /\ playlist_id = 0
    /\ existing_track_ids = <<>>
    /\ tracks_to_add = <<>>
    /\ track_uri = Unbound
    /\ track_id = None
    /\ j = 1
    /\ song_num = 1
    /\ searchCalls = 0
    /\ sleeps = 0
    /\ k = 0
    /\ addCalls = <<>>
    /\ resolved = <<>>
    /\ cause = <<>>
    /\ dedupFetched = <<>>
    /\ hist = NoHist
    /\ prev = NoHist
    /\ saves = 0
    /\ sleptAt = <<>>
    /\ lostKeys = {}
    /\ offset = 0
    /\ listed = <<>>
    /\ oaiTexts = LooseAnswers

\* A run up to its first call to the playlist service, which fails
NextClassify ==
    \/ StartRun
    \/ ClassifyCached
    \/ ClassifyCall
    \/ ClassifyFail
    \/ SaveClassified
    \/ SpotifyFail

SpecClassify == InitClassify /\ [][NextClassify]_vars

-----------------------------------------------------------------------------
(* Properties *)

\* The track ids of the playlist of this run
Tracks == RemoteTracks(playlists, playlist_id)

\* The uris update_spotify_playlist is to add: those of the songs processed
\* whose track id is resolved and not among the ids fetched
Missing ==
    {Uri(resolved[n]) : n \in {m \in 1..Len(resolved) :
                                  /\ resolved[m] # None
                                  /\ resolved[m] \notin Range(existing_track_ids)}}

\* C1: when a reconciliation that ran to its end is followed by one with the
\* same desired list, the second one runs to its end too, its tracks_to_add
\* is empty and the playlist holds the same set of tracks after both.
C1_IdempotentReconciliation ==
    (/\ prev.exit = "ok"
     /\ hist.exit \in {"ok", "UnboundLocalError"}
     /\ hist.songs = prev.songs)
    => (/\ hist.exit = "ok"
        /\ hist.toAdd = <<>>
        /\ Range(hist.tracks) = Range(prev.tracks))

\* C2: after a run of update_spotify_playlist the playlist holds exactly one
\* entry for every desired song that resolved to a track id.
C2_Convergence ==
    pc \in {"save", "done"}
    => \A n \in 1..Len(resolved) :
          resolved[n] # None => Count(Tracks, resolved[n]) = 1

\* C3: after remove_duplicates every track id it fetched, whether it occurred
\* once or several times, occurs exactly once in the playlist.
C3_DedupConvergence ==
    pc \in {"save", "done"}
    => \A t \in Range(dedupFetched) : Count(Tracks, t) = 1

\* C4: once the loop over the desired songs is over, the items of
\* tracks_to_add are exactly the tracks of the songs whose resolved id is not
\* among the ids fetched at the start.
C4_DeltaCorrectness ==
    pc \in {"add", "save", "done"} => Range(tracks_to_add) = Missing

\* C5: a song whose search finds nothing adds no item to tracks_to_add and
\* does not make update_spotify_playlist raise.
C5_UnresolvedSkip ==
    /\ None \notin Range(cause)
    /\ ~(hist.exit = "UnboundLocalError" /\ hist.track_id = None)

\* The row classify_spanish_music is at has its key in the cache
AtCachedRow ==
    /\ pc = "classify"
    /\ i <= Len(df)
    /\ Key(df[i]) \in DOMAIN song_cache

\* C6: a row whose key is in the cache with a classification is classified
\* without a call to the classification service, its label being the value
\* the cache holds.
C6_ClassifierMemoization ==
    [][AtCachedRow => /\ oaiCalls' = oaiCalls
                      /\ answer' = song_cache[Key(df[i])].OAI_RES]_vars

W6_ClassifierMemoization ==
    /\ pc = "classify"
    /\ i = 3
    /\ Key(df[1]) \in DOMAIN cache0
    /\ Key(df[2]) \in DOMAIN cache0
    /\ cache0[Key(df[1])].OAI_RES = "Yes"
    /\ cache0[Key(df[2])].OAI_RES = "No"
    /\ answer = "No"
    /\ spanish_songs = <<df[1]>>
    /\ oaiCalls = 0

\* The keys of the rows classify_spanish_music has been through that the
\* cache did not hold when it was loaded
NewKeys == {Key(df[n]) : n \in 1..(i - 1)} \ DOMAIN cache0

\* C7: the calls to the classification service made so far in a run are as
\* many as the distinct keys, absent from the cache at the start, of the rows
\* gone through; the record of such a key holds no track id until the
\* reconciliation, and the record of the last row holds the label the row got.
C7_OneCallPerUnclassifiedKey ==
    /\ pc \notin {"idle", "aborted"} => oaiCalls = Cardinality(NewKeys)
    /\ pc = "classify" =>
          /\ \A key \in NewKeys : song_cache[key].SPOTIFY_ID = None
          /\ i > 1 => song_cache[Key(df[i - 1])].OAI_RES = answer

W7_OneCallPerUnclassifiedKey ==
    /\ pc = "classify"
    /\ i = 4
    /\ df[1] = df[3]
    /\ Key(df[2]) # Key(df[1])
    /\ cache0 = EmptyCache
    /\ answer = "No"
    /\ oaiCalls = 2

\* Every record of a is in b with the classification it has in a
Grows(a, b) ==
    \A key \in DOMAIN a : key \in DOMAIN b /\ b[key].OAI_RES = a[key].OAI_RES

AtResolvedSong ==
    /\ pc = "resolve"
    /\ j <= Len(spanish_songs)
    /\ Key(spanish_songs[j]) \in DOMAIN song_cache
    /\ song_cache[Key(spanish_songs[j])].SPOTIFY_ID \notin {None, ""}

\* C9: a song whose cache record holds a track id is resolved to that id
\* without a search, whether the step goes on to the next song or raises.
C9_ResolverMemoization ==
    [][AtResolvedSong =>
          LET cached == song_cache[Key(spanish_songs[j])].SPOTIFY_ID
          IN IF pc' = "aborted"
             THEN /\ hist'.track_id = cached
                  /\ hist'.searches = searchCalls
                  /\ hist'.exit = "UnboundLocalError"
             ELSE /\ track_id' = cached
                  /\ resolved' = Append(resolved, cached)
                  /\ searchCalls' = searchCalls]_vars

W9_ResolverMemoization ==
    /\ pc = "resolve"
    /\ j = 2
    /\ HasTrackId(cache0, Key(spanish_songs[1]))
    /\ track_id = cache0[Key(spanish_songs[1])].SPOTIFY_ID
    /\ resolved = <<track_id>>
    /\ searchCalls = 0

\* ceil(n / 100)
CeilBatches(n) == (n + 99) \div 100

\* C10: the add calls made so far submit tracks_to_add in order, 100 items a
\* call; once the loop is over there are ceil(N/100) of them holding every
\* item once, the last one alone possibly shorter, and none for an empty list.
C10_Batching ==
    LET n == Len(tracks_to_add)
        made == Len(addCalls)
    IN pc \in {"add", "save", "done"} =>
         /\ \A c \in 1..made :
               addCalls[c] = SubSeq(tracks_to_add, 100 * (c - 1) + 1, Min(100 * c, n))
         /\ \A c \in 1..(made - 1) : Len(addCalls[c]) = 100
         /\ made = Min(k \div 100, CeilBatches(n))
         /\ (pc = "add" /\ k < n) => made < CeilBatches(n)
         /\ (pc # "add" \/ k >= n) =>
               /\ made = CeilBatches(n)
               /\ n > 0 => Len(addCalls[made]) = n - 100 * (made - 1)
               /\ n = 0 => addCalls = <<>>

W10_Batching ==
    /\ pc = "save"
    /\ Len(tracks_to_add) = 250
    /\ tracks_to_add[101] = Uri("T2")
    /\ Len(addCalls) = 3
    /\ Len(addCalls[1]) = 100
    /\ Len(addCalls[2]) = 100
    /\ Len(addCalls[3]) = 50
    /\ addCalls[2][1] = Uri("T2")

\* The phases of a run between its two saves
Reconciling == {"spotify", "locate", "fetch", "resolve", "add", "save"}

\* The file holds the classification of every key of the mapping in memory
Persisted(c) ==
    /\ disk.exists
    /\ DOMAIN disk.data = DOMAIN c
    /\ \A key \in DOMAIN c : disk.data[key].OAI_RES = c[key].OAI_RES

C12_Throttle ==
    /\ song_num = searchCalls + 1
    /\ \A n \in 1..Len(sleptAt) : sleptAt[n] = SleepEvery * n

\* The song the loop is at has no track id in the cache
AtUnresolvedSong ==
    /\ pc = "resolve"
    /\ j <= Len(spanish_songs)
    /\ ~HasTrackId(song_cache, Key(spanish_songs[j]))

\* The track ids some search returns for a song of this key
FoundFor(key) == {SearchItems(song)[1].id : song \in {x \in Songs : Key(x) = key /\ SearchItems(x) # <<>>}}

\* C13: a search that returns no item leaves the cache as it was, so the
\* song's track id stays unset; a song whose track id is unset is searched
\* for, in this run and in a later one, and neither the mapping nor the file
\* ever holds a track id that no search returned.
C13_NotFoundNotMemoized ==
    /\ [](\A key \in DOMAIN song_cache :
             song_cache[key].SPOTIFY_ID # None => song_cache[key].SPOTIFY_ID \in FoundFor(key))
    /\ [](\A key \in DOMAIN disk.data :
             disk.data[key].SPOTIFY_ID # None => disk.data[key].SPOTIFY_ID \in FoundFor(key))
    /\ [][(AtUnresolvedSong /\ pc' = "resolve") =>
             /\ searchCalls' = searchCalls + 1
             /\ SearchItems(spanish_songs[j]) = <<>> =>
                   /\ song_cache' = song_cache
                   /\ resolved' = Append(resolved, None)]_vars

\* A song no search finds came twice in one run, after another: three searches
W13_NotFoundNotMemoized ==
    /\ pc = "resolve"
    /\ j = 4
    /\ resolved = <<"T2", None, None>>
    /\ searchCalls = 3
    /\ song_cache["abc"].SPOTIFY_ID = None

\* C14: when the classification call fails the run ends there: it has saved
\* nothing and called neither the catalog nor the playlist service, the file
\* is the one the run loaded, and no classification the run obtained before
\* the failure is in it.
C14_FailFast ==
    /\ [][(pc = "classify" /\ pc' = "aborted") =>
             /\ exit' = "ClassificationError"
             /\ saves = 0
             /\ disk' = disk /\ file' = file
             /\ LoadCache(disk') = cache0
             /\ (DOMAIN song_cache \ DOMAIN cache0) \cap DOMAIN LoadCache(disk') = {}
             /\ playlists' = playlists
             /\ playlist_id = 0 /\ offset = 0 /\ listed = <<>>
             /\ searchCalls = 0 /\ addCalls = <<>> /\ dedupFetched = <<>>]_vars
    /\ [][pc = "aborted" => (pc' = "classify" /\ run' = run + 1)]_vars
    /\ []((pc = "aborted" /\ exit = "ClassificationError") =>
             lostKeys \cap DOMAIN LoadCache(disk) = {})

\* The classifier failed at the second row of a run that had classified the
\* first: no file was there at the start and none is there now.
W14_FailFast ==
    /\ pc = "aborted"
    /\ exit = "ClassificationError"
    /\ Len(df) >= 2
    /\ lostKeys = {Key(df[1])}
    /\ ~disk.exists
    /\ LoadCache(disk) = EmptyCache

\* C15: a crash at any point of save_cache leaves the file holding the whole
\* of the mapping it held before or the whole of the new one, and the next
\* load_cache reads it.
C15_SaveAtomicity ==
    /\ pc = "crashed" => file \in {Complete(disk), Written(song_cache)}
    /\ pc # "load_failed"

\* C17: load_cache returns the empty mapping when there is no file and the
\* mapping the file holds when it is well-formed; when the file is there and
\* is not well-formed the load fails with the parser's error, no mapping is
\* returned and the run ends there.
C17_LoadCache ==
    /\ [][pc = "load" =>
             /\ ~file.exists => (pc' = "edit" /\ song_cache' = EmptyCache)
             /\ (file.exists /\ WellFormed(file.text)) =>
                   (pc' = "edit" /\ disk.exists /\ song_cache' = disk.data)
             /\ (file.exists /\ ~WellFormed(file.text)) =>
                   (pc' = "load_failed" /\ exit' = "JSONDecodeError")]_vars
    /\ [][pc # "load_failed"]_vars

\* The second run found the file that a crash of the first had left with
\* its opening piece and one record, and failed to load it
W17_LoadCache ==
    /\ pc = "load_failed"
    /\ run = 2
    /\ exit = "JSONDecodeError"
    /\ Len(file.text) = 2
    /\ file.text[2].kind = "entry"

\* The playlists of the target name
Named == {n \in 1..Len(playlists) : playlists[n].name = PLAYLIST_NAME}

\* C16: get_or_create_playlist lists every playlist, page after page, until
\* the service reports no next page; it returns the id of the first playlist
\* whose name is exactly the target when there is one, on whatever page, and
\* creates nothing; it creates one playlist of that name when there is none;
\* over the runs there never come to be two of that name.
C16_LocateOrCreate ==
    /\ [][pc = "locate" =>
             /\ listed = [n \in 1..Len(playlists) |-> [id |-> n, name |-> playlists[n].name]]
             /\ Named # {} =>
                   /\ playlist_id' \in Named
                   /\ \A n \in Named : playlist_id' <= n
                   /\ playlists' = playlists
             /\ Named = {} =>
                   /\ playlists' = Append(playlists, [name |-> PLAYLIST_NAME, tracks |-> <<>>])
                   /\ playlist_id' = Len(playlists')]_vars
    /\ [][playlists' # playlists => (pc = "locate" /\ Named = {})]_vars
    /\ [](Cardinality(Named) <= 1)
    /\ [](pc = "spotify" => offset = Len(listed) /\ offset <= Len(playlists))

\* The second run found on the third page the playlist the first had created
W16_LocateOrCreate ==
    /\ pc = "fetch"
    /\ run = 2
    /\ Len(playlists) = 2 * PageLimit + 1
    /\ playlist_id = 2 * PageLimit + 1
    /\ Named = {2 * PageLimit + 1}

\* The label of a row the loop has passed: the one in the mapping
Label(row) == song_cache[Key(row)].OAI_RES

\* C18: the list classify_spanish_music builds is the rows it has passed, in
\* their order and as often as they come, whose label, cached or fresh, is
\* the string Yes; a row of any other label, also one that differs from Yes
\* in case or padding only, is left out.
C18_VerbatimFilter ==
    pc \in {"classify", "spotify"} =>
       /\ \A n \in 1..(i - 1) : Key(df[n]) \in DOMAIN song_cache
       /\ spanish_songs = SelectSeq(SubSeq(df, 1, i - 1), LAMBDA row : Label(row) = "Yes")
       /\ \A n \in 1..(i - 1) :
             Label(df[n]) \in {"No", "yes", " Yes"} => df[n] \notin Range(spanish_songs)
       /\ pc = "spotify" => i = Len(df) + 1

\* Of three rows the same song came twice, labelled Yes, once fresh and once
\* from the cache, and the third row was labelled yes
W18_VerbatimFilter ==
    /\ pc = "spotify"
    /\ df = <<Song("d", "e"), Song("a", "bc"), Song("d", "e")>>
    /\ Label(df[1]) = "Yes"
    /\ Label(df[2]) = "yes"
    /\ spanish_songs = <<Song("d", "e"), Song("d", "e")>>
    /\ oaiCalls = 2

\* C19: a song whose track id comes from the cache and is not among the
\* playlist's tracks does not make update_spotify_playlist fail, and every
\* item of tracks_to_add is the URI of the track id resolved for the song
\* that caused the append.
C19_OwnUri ==
    /\ \A n \in 1..Len(tracks_to_add) :
          n <= Len(cause) => (cause[n] # None => tracks_to_add[n] = Uri(cause[n]))
    /\ ~(hist.exit = "UnboundLocalError" /\ hist.track_id # None)

====
